---------------------------- MODULE Spec2Model ----------------------------
(***************************************************************************)
(* EvolvX client: the session manager of contexts/AuthContext.js           *)
(* (AuthProvider: boot restore, login, register, logout) and the shared    *)
(* axios client with its request interceptor.                              *)
(*                                                                         *)
(* Every asynchronous function is cut at its awaits: one action runs the   *)
(* code from one await to the next, and the awaited I/O (HTTP post,        *)
(* AsyncStorage call) takes effect in the step that resumes the function.  *)
(***************************************************************************)
EXTENDS Integers, Sequences, FiniteSets, TLC

(* ------------------------------ bounds -------------------------------- *)
\* number of distinct access tokens the server may hand out
NumTokens == 2
\* number of distinct accounts (user ids, usernames and emails)
NumAccounts == 2

(* ------------------------------ values -------------------------------- *)
\* null / undefined, for tokens, ids and names
NULL == 0
Tokens == 1..NumTokens
Accounts == 1..NumAccounts

\* the in-memory user: null, or {id, username, email}
NoUser == [id |-> NULL, username |-> NULL, email |-> NULL]
\* the identity record of account a, as login and register build it
UserOf(a) == [id |-> a, username |-> a, email |-> a]
Users == {UserOf(a) : a \in Accounts}

\* AsyncStorage values are strings; a missing key reads as null
Absent == <<>>
\* a stored 'user' string that is not JSON
Malformed == <<NULL>>
\* JSON.stringify({id, username, email})
Stringify(u) == <<u.id, u.username, u.email>>
\* does JSON.parse accept the string
Parses(str) == Len(str) = 3
\* JSON.parse of a string it accepts
Parse(str) == [id |-> str[1], username |-> str[2], email |-> str[3]]

\* `Bearer ${t}`: also built from a null token ("Bearer null")
Bearer(t) == <<"Bearer", t>>
\* no Authorization header
NoHeader == <<>>

Keys == {"auth_token", "user"}
Slots == {"a", "b"}

\* How axios.post rejects: without a response (e.response undefined), or
\* with a response whose body is {error: m}; "" is a string like any other
\* to the server and falsy to JavaScript.
NoResponse == <<>>
Rejections == {NoResponse, <<"">>, <<"Invalid credentials">>}
LoginFailed == "Login failed"
RegistrationFailed == "Registration failed"

VARIABLES
    storage,      \* AsyncStorage: [auth_token, user]
    defaultAuth,  \* api.defaults.headers.common.Authorization
    token,        \* useState token
    user,         \* useState user
    loading,      \* useState loading
    error,        \* useState error
    boot,         \* the boot effect: "read" (multiGet pending) or "done"
    ops,          \* the calls of login / register / logout in flight, per slot
    req,          \* a request through the shared client `api`
    last,         \* what the most recently finished session operation returned
    overlap       \* history: which logins another login overtook

\* the state of the screens (each a record of the screen's useState values)
VARIABLES
    home,               \* HomeScreen
    workoutScreen,      \* WorkoutScreen
    leaderboardScreen,  \* LeaderboardScreen
    form,               \* CreateWorkoutScreen
    social              \* SocialScreen

sessionVars == <<storage, defaultAuth, token, user, loading, error, boot, ops, req, last>>
listVars == <<workoutScreen, leaderboardScreen>>
screenVars == <<home, workoutScreen, leaderboardScreen, form, social>>
vars == <<storage, defaultAuth, token, user, loading, error, boot, ops, req, last,
          overlap, home, workoutScreen, leaderboardScreen, form, social>>

IdleOp == [kind |-> "idle", pc |-> "idle", tok |-> NULL, usr |-> NoUser]
IdleReq == [pc |-> "idle", perCall |-> FALSE, auth |-> NoHeader]

\* What a finished session operation met and returned:
\*   io       "resolved" (every awaited call resolved), "post" (axios.post
\*            rejected) or "storage" (the AsyncStorage call rejected)
\*   rej      how axios.post rejected, when it did
\*   outcome  "success" / "failure" ({success: ...} of login and register),
\*            "resolved" / "rejected" (the promise of restore and logout)
\*   error    the error of {success: false, error}
\*   tok, usr the token and user record of the server's answer (login,
\*            register) or the token read (restore)
Result(kind, io, rej, outcome, err, tok, usr) ==
    [kind |-> kind, io |-> io, rej |-> rej, outcome |-> outcome,
     error |-> err, tok |-> tok, usr |-> usr]
NoResult == Result("none", "none", NoResponse, "none", "", NULL, NoUser)

\* nothing asynchronous is in flight
Quiescent ==
    /\ boot = "done"
    /\ \A s \in Slots : ops[s].kind = "idle"
    /\ req.pc = "idle"

\* no session operation (restore, login, register, logout) is in flight
NoSessionOp ==
    /\ boot = "done"
    /\ \A s \in Slots : ops[s].kind = "idle"

\* A caller that serialises its calls starts one only when nothing is in flight.
MayStart(serial) == serial => Quiescent

\* History of overlapping logins:
\*   pending  the slots whose login was in flight when another login returned
\*            success
\*   last     whether the most recently finished session operation was such
\*            a login
NoOverlap == [pending |-> {}, last |-> FALSE]

\* a login in slot s returns {success: true} in this step
LoginSucceeds(s) ==
    ops[s].kind = "login" /\ ops'[s].kind = "idle" /\ last'.outcome = "success"

\* the history of overlapping logins, kept by every step of the session
TrackOverlap ==
    overlap' =
        [pending |-> {s \in Slots :
                        /\ ops[s].kind = "login" /\ ops'[s].kind = "login"
                        /\ \/ s \in overlap.pending
                           \/ \E r \in Slots \ {s} : LoginSucceeds(r)},
         last |-> IF \E s \in Slots : ops[s].kind # "idle" /\ ops'[s].kind = "idle"
                  THEN \E s \in overlap.pending : ops'[s].kind = "idle"
                  ELSE IF boot' # boot THEN FALSE ELSE overlap.last]

\* HomeScreen as mounted: the useState initial values, no load in flight
HomeMounted ==
    [pc |-> "idle", loading |-> TRUE, refreshing |-> FALSE,
     workouts |-> <<>>, workoutsFetched |-> FALSE, streak |-> 0,
     rankings |-> <<>>, error |-> FALSE,
     unauthorized |-> FALSE, logoutCalled |-> FALSE, route |-> "Home",
     sent |-> {}, failed |-> {}]

\* the filter options of LeaderboardScreen (two of the six muscle groups, two
\* of the four age ranges) and their useState initial values
UserFilters == {"all", "friends"}
MuscleGroups == {"overall", "chest"}
AllAges == "null"
AgeRanges == {AllAges, "18-30"}
Filters == [userFilter : UserFilters, muscleGroup : MuscleGroups, ageRange : AgeRanges]
DefaultFilters == [userFilter |-> "all", muscleGroup |-> "overall", ageRange |-> AllAges]
\* no response on display yet
NothingShown == [userFilter |-> "", muscleGroup |-> "", ageRange |-> ""]

\* WorkoutScreen and LeaderboardScreen as mounted: the useState initial
\* values, and the load that the mount effect has started
WorkoutMounted ==
    [mounted |-> TRUE, pc |-> "load", loading |-> TRUE, refreshing |-> FALSE,
     workouts |-> <<>>, searchQuery |-> <<>>, filteredWorkouts |-> <<>>,
     error |-> FALSE, deletes |-> {}, deleted |-> {}]
LeaderboardMounted ==
    [mounted |-> TRUE, pc |-> "load", loading |-> TRUE, refreshing |-> FALSE,
     leaderboard |-> <<>>, searchQuery |-> <<>>, filteredLeaderboard |-> <<>>,
     error |-> FALSE,
     filters |-> DefaultFilters,
     inflight |-> {[id |-> 1, filters |-> DefaultFilters]},
     shown |-> NothingShown]
\* SocialScreen as mounted: the useState initial values, and the load that
\* the token effect has started (sent, failed: the requests of the current
\* load that were sent and that were rejected)
SocialMounted ==
    [mounted |-> TRUE, pc |-> "shared", loading |-> TRUE, refreshing |-> FALSE,
     sharedWorkouts |-> <<>>, friends |-> <<>>, activityFeed |-> <<>>,
     error |-> FALSE, sent |-> {"shared"}, failed |-> {}]
\* a screen of the tab navigator that has not been visited
Unmounted(screen) == [screen EXCEPT !.mounted = FALSE, !.pc = "idle"]

\* CreateWorkoutScreen as mounted: the useState initial values
NoTemplate == ""
\* errMsg: a message text and the exercise name it quotes; save: the call of
\* saveWorkout in flight with the workoutName and exercises of its render,
\* the catalogue it got and the exercises of the POST it sent
NoErr == [text |-> "", name |-> ""]
NoSave ==
    [pc |-> "idle", workoutName |-> <<>>, exercises |-> <<>>, catalogue |-> <<>>,
     body |-> <<>>]
FormMounted ==
    [workoutName |-> <<>>, selectedTemplate |-> NoTemplate, exercises |-> <<>>,
     saving |-> FALSE, errMsg |-> NoErr, save |-> NoSave, route |-> "CreateWorkout"]

StoredUsers == {Absent, Malformed} \cup {Stringify(u) : u \in Users}

\* State after construction: the useState initial values; durable storage
\* holds whatever an earlier run of the process left in it.
Init ==
    /\ storage \in [auth_token : Tokens \cup {NULL}, user : StoredUsers]
    /\ defaultAuth = NoHeader
    /\ token = NULL
    /\ user = NoUser
    /\ loading = TRUE
    /\ error = ""
    /\ boot = "read"
    /\ ops = [s \in Slots |-> IdleOp]
    /\ req = IdleReq
    /\ last = NoResult
    /\ overlap = NoOverlap
    /\ home = HomeMounted
    /\ workoutScreen = Unmounted(WorkoutMounted)
    /\ leaderboardScreen = Unmounted(LeaderboardMounted)
    /\ form = FormMounted
    /\ social = Unmounted(SocialMounted)

(* ------------------------------ restore ------------------------------- *)
\* mutant of RestoreResolve: the user record is restored, the token is not
RestoreResolveNoToken ==
    /\ boot = "read"
    /\ boot' = "done"
    /\ user' = IF storage.user # Absent /\ Parses(storage.user)
               THEN Parse(storage.user) ELSE user
    /\ loading' = FALSE
    /\ last' = Result("restore", "resolved", NoResponse,
                       IF storage.user # Absent /\ ~Parses(storage.user)
                       THEN "rejected" ELSE "resolved",
                       "", storage.auth_token, NoUser)
    /\ UNCHANGED <<storage, defaultAuth, token, error, ops, req>>

\* multiGet resolves: the boot effect's try block and its finally
RestoreResolve ==
    /\ boot = "read"
    /\ boot' = "done"
    /\ token' = IF storage.auth_token # NULL THEN storage.auth_token ELSE token
    /\ user' = IF storage.user # Absent /\ Parses(storage.user)
               THEN Parse(storage.user) ELSE user
    /\ loading' = FALSE
    \* JSON.parse throws on a malformed string: the async function rejects
    /\ last' = Result("restore", "resolved", NoResponse,
                       IF storage.user # Absent /\ ~Parses(storage.user)
                       THEN "rejected" ELSE "resolved",
                       "", storage.auth_token, NoUser)
    /\ UNCHANGED <<storage, defaultAuth, error, ops, req>>

\* mutant of RestoreReject: no finally block
RestoreRejectKeepsLoading ==
    /\ boot = "read"
    /\ boot' = "done"
    /\ last' = Result("restore", "storage", NoResponse, "rejected", "", NULL, NoUser)
    /\ UNCHANGED <<storage, defaultAuth, token, user, loading, error, ops, req>>

\* multiGet rejects: only the finally block runs
RestoreReject ==
    /\ boot = "read"
    /\ boot' = "done"
    /\ loading' = FALSE
    /\ last' = Result("restore", "storage", NoResponse, "rejected", "", NULL, NoUser)
    /\ UNCHANGED <<storage, defaultAuth, token, user, error, ops, req>>


(* ------------------------- durable storage ---------------------------- *)
\* AsyncStorage.multiSet resolved: both pairs written
MultiSet(tok, userJson) == [auth_token |-> tok, user |-> userJson]

\* AsyncStorage.multiSet rejected after writing only the keys in `applied`
PartialSet(applied, tok, userJson) ==
    [auth_token |-> IF "auth_token" \in applied THEN tok ELSE storage.auth_token,
     user |-> IF "user" \in applied THEN userJson ELSE storage.user]

\* AsyncStorage.multiRemove rejected after removing only the keys in `applied`
\* (all of Keys: it resolved)
MultiRemove(applied) ==
    [auth_token |-> IF "auth_token" \in applied THEN NULL ELSE storage.auth_token,
     user |-> IF "user" \in applied THEN Absent ELSE storage.user]

\* the sets of keys a rejected multi-key call may have processed
PartialKeys == (SUBSET Keys) \ {Keys}

(* ------------------------------- login -------------------------------- *)
\* mutant of ErrorMessage: the server's message is dropped
ErrorMessageGeneric(rej, fallback) == fallback

\* e.response?.data?.error || fallback, for an error e that is a rejection
\* of axios.post or (NoResponse) an error of AsyncStorage
ErrorMessage(rej, fallback) ==
    IF rej # NoResponse /\ rej[1] # "" THEN rej[1] ELSE fallback

\* login(email, password) up to the await of axios.post
LoginStart(s, serial) ==
    /\ MayStart(serial)
    /\ ops[s].kind = "idle"
    /\ error' = ""
    /\ loading' = TRUE
    /\ ops' = [ops EXCEPT ![s] = [kind |-> "login", pc |-> "post",
                                  tok |-> NULL, usr |-> NoUser]]
    /\ UNCHANGED <<storage, defaultAuth, token, user, boot, req, last>>

\* mutant of LoginPostResolve: the session is set in memory before the
\* write to durable storage is awaited
LoginPostResolveSetsFirst(s, email, access_token, user_id, username) ==
    /\ ops[s].kind = "login" /\ ops[s].pc = "post"
    /\ defaultAuth' = Bearer(access_token)
    /\ token' = access_token
    /\ user' = [id |-> user_id, username |-> username, email |-> email]
    /\ ops' = [ops EXCEPT ![s] = [kind |-> "login", pc |-> "write",
                 tok |-> access_token,
                 usr |-> [id |-> user_id, username |-> username, email |-> email]]]
    /\ UNCHANGED <<storage, loading, error, boot, req, last>>

\* axios.post resolved with {access_token, user_id, username}: the call
\* builds the user record with the email it was given and awaits multiSet
LoginPostResolve(s, email, access_token, user_id, username) ==
    /\ ops[s].kind = "login" /\ ops[s].pc = "post"
    /\ ops' = [ops EXCEPT ![s] = [kind |-> "login", pc |-> "write",
                 tok |-> access_token,
                 usr |-> [id |-> user_id, username |-> username, email |-> email]]]
    /\ UNCHANGED <<storage, defaultAuth, token, user, loading, error, boot, req, last>>

\* axios.post rejected: catch, then finally
LoginPostReject(s, rej) ==
    /\ ops[s].kind = "login" /\ ops[s].pc = "post"
    /\ error' = ErrorMessage(rej, LoginFailed)
    /\ loading' = FALSE
    /\ last' = Result("login", "post", rej, "failure",
                       ErrorMessage(rej, LoginFailed), NULL, NoUser)
    /\ ops' = [ops EXCEPT ![s] = IdleOp]
    /\ UNCHANGED <<storage, defaultAuth, token, user, boot, req>>

\* mutant of LoginWriteResolve: setUser is forgotten
LoginWriteResolveNoSetUser(s) ==
    /\ ops[s].kind = "login" /\ ops[s].pc = "write"
    /\ storage' = MultiSet(ops[s].tok, Stringify(ops[s].usr))
    /\ defaultAuth' = Bearer(ops[s].tok)
    /\ token' = ops[s].tok
    /\ loading' = FALSE
    /\ last' = Result("login", "resolved", NoResponse, "success", "",
                       ops[s].tok, ops[s].usr)
    /\ ops' = [ops EXCEPT ![s] = IdleOp]
    /\ UNCHANGED <<user, error, boot, req>>

\* mutant of LoginWriteResolve: a session already in memory is kept
LoginWriteResolveFirstWins(s) ==
    /\ ops[s].kind = "login" /\ ops[s].pc = "write"
    /\ storage' = MultiSet(ops[s].tok, Stringify(ops[s].usr))
    /\ defaultAuth' = Bearer(ops[s].tok)
    /\ token' = IF token # NULL THEN token ELSE ops[s].tok
    /\ user' = IF token # NULL THEN user ELSE ops[s].usr
    /\ loading' = FALSE
    /\ last' = Result("login", "resolved", NoResponse, "success", "",
                       ops[s].tok, ops[s].usr)
    /\ ops' = [ops EXCEPT ![s] = IdleOp]
    /\ UNCHANGED <<error, boot, req>>

\* multiSet resolved: default header, setToken, setUser, return success, finally
LoginWriteResolve(s) ==
    /\ ops[s].kind = "login" /\ ops[s].pc = "write"
    /\ storage' = MultiSet(ops[s].tok, Stringify(ops[s].usr))
    /\ defaultAuth' = Bearer(ops[s].tok)
    /\ token' = ops[s].tok
    /\ user' = ops[s].usr
    /\ loading' = FALSE
    /\ last' = Result("login", "resolved", NoResponse, "success", "",
                       ops[s].tok, ops[s].usr)
    /\ ops' = [ops EXCEPT ![s] = IdleOp]
    /\ UNCHANGED <<error, boot, req>>

\* mutant of LoginWriteReject: the storage error is not caught
LoginWriteRejectThrows(s, applied) ==
    /\ ops[s].kind = "login" /\ ops[s].pc = "write"
    /\ storage' = PartialSet(applied, ops[s].tok, Stringify(ops[s].usr))
    /\ loading' = FALSE
    /\ last' = Result("login", "storage", NoResponse, "rejected", "",
                       ops[s].tok, ops[s].usr)
    /\ ops' = [ops EXCEPT ![s] = IdleOp]
    /\ UNCHANGED <<defaultAuth, token, user, error, boot, req>>

\* multiSet rejected (the error has no response): catch, then finally
LoginWriteReject(s, applied) ==
    /\ ops[s].kind = "login" /\ ops[s].pc = "write"
    /\ storage' = PartialSet(applied, ops[s].tok, Stringify(ops[s].usr))
    /\ error' = ErrorMessage(NoResponse, LoginFailed)
    /\ loading' = FALSE
    /\ last' = Result("login", "storage", NoResponse, "failure",
                       ErrorMessage(NoResponse, LoginFailed), ops[s].tok, ops[s].usr)
    /\ ops' = [ops EXCEPT ![s] = IdleOp]
    /\ UNCHANGED <<defaultAuth, token, user, boot, req>>

(* ------------------------------ register ------------------------------ *)
\* register(username, email, ...) up to the await of axios.post
RegisterStart(s, serial) ==
    /\ MayStart(serial)
    /\ ops[s].kind = "idle"
    /\ error' = ""
    /\ loading' = TRUE
    /\ ops' = [ops EXCEPT ![s] = [kind |-> "register", pc |-> "post",
                                  tok |-> NULL, usr |-> NoUser]]
    /\ UNCHANGED <<storage, defaultAuth, token, user, boot, req, last>>

\* axios.post resolved with {access_token, user_id}: userData takes the
\* username and email the call was given
RegisterPostResolve(s, username, email, access_token, user_id) ==
    /\ ops[s].kind = "register" /\ ops[s].pc = "post"
    /\ ops' = [ops EXCEPT ![s] = [kind |-> "register", pc |-> "write",
                 tok |-> access_token,
                 usr |-> [id |-> user_id, username |-> username, email |-> email]]]
    /\ UNCHANGED <<storage, defaultAuth, token, user, loading, error, boot, req, last>>

\* axios.post rejected: catch, then finally
RegisterPostReject(s, rej) ==
    /\ ops[s].kind = "register" /\ ops[s].pc = "post"
    /\ error' = ErrorMessage(rej, RegistrationFailed)
    /\ loading' = FALSE
    /\ last' = Result("register", "post", rej, "failure",
                       ErrorMessage(rej, RegistrationFailed), NULL, NoUser)
    /\ ops' = [ops EXCEPT ![s] = IdleOp]
    /\ UNCHANGED <<storage, defaultAuth, token, user, boot, req>>

\* multiSet resolved: default header, setToken, setUser, return success, finally
RegisterWriteResolve(s) ==
    /\ ops[s].kind = "register" /\ ops[s].pc = "write"
    /\ storage' = MultiSet(ops[s].tok, Stringify(ops[s].usr))
    /\ defaultAuth' = Bearer(ops[s].tok)
    /\ token' = ops[s].tok
    /\ user' = ops[s].usr
    /\ loading' = FALSE
    /\ last' = Result("register", "resolved", NoResponse, "success", "",
                       ops[s].tok, ops[s].usr)
    /\ ops' = [ops EXCEPT ![s] = IdleOp]
    /\ UNCHANGED <<error, boot, req>>

\* multiSet rejected: catch, then finally
RegisterWriteReject(s, applied) ==
    /\ ops[s].kind = "register" /\ ops[s].pc = "write"
    /\ storage' = PartialSet(applied, ops[s].tok, Stringify(ops[s].usr))
    /\ error' = ErrorMessage(NoResponse, RegistrationFailed)
    /\ loading' = FALSE
    /\ last' = Result("register", "storage", NoResponse, "failure",
                       ErrorMessage(NoResponse, RegistrationFailed), ops[s].tok, ops[s].usr)
    /\ ops' = [ops EXCEPT ![s] = IdleOp]
    /\ UNCHANGED <<defaultAuth, token, user, boot, req>>

(* ------------------------------- logout ------------------------------- *)
\* logout() up to the await of multiRemove
LogoutStart(s, serial) ==
    /\ MayStart(serial)
    /\ ops[s].kind = "idle"
    /\ loading' = TRUE
    /\ ops' = [ops EXCEPT ![s] = [kind |-> "logout", pc |-> "remove",
                                  tok |-> NULL, usr |-> NoUser]]
    /\ UNCHANGED <<storage, defaultAuth, token, user, error, boot, req, last>>

\* multiRemove resolved: delete the default header, setToken(null),
\* setUser(null), finally
LogoutRemoveResolve(s) ==
    /\ ops[s].kind = "logout" /\ ops[s].pc = "remove"
    /\ storage' = MultiRemove(Keys)
    /\ defaultAuth' = NoHeader
    /\ token' = NULL
    /\ user' = NoUser
    /\ loading' = FALSE
    /\ last' = Result("logout", "resolved", NoResponse, "resolved", "", NULL, NoUser)
    /\ ops' = [ops EXCEPT ![s] = IdleOp]
    /\ UNCHANGED <<error, boot, req>>

\* multiRemove rejected: there is no catch, so only finally runs and the
\* promise logout returned rejects
LogoutRemoveReject(s, applied) ==
    /\ ops[s].kind = "logout" /\ ops[s].pc = "remove"
    /\ storage' = MultiRemove(applied)
    /\ loading' = FALSE
    /\ last' = Result("logout", "storage", NoResponse, "rejected", "", NULL, NoUser)
    /\ ops' = [ops EXCEPT ![s] = IdleOp]
    /\ UNCHANGED <<defaultAuth, token, user, error, boot, req>>

(* ------------------------- the shared client -------------------------- *)
\* The Authorization header of the request config axios hands to the
\* interceptor: a per-call header (SocialScreen's authHdr(token)) replaces
\* the default one.
ConfigAuth(perCall) == IF perCall THEN Bearer(token) ELSE defaultAuth

\* api.get / api.post called by a screen, up to the interceptor's await
RequestStart(perCall, serial) ==
    /\ MayStart(serial)
    /\ req.pc = "idle"
    /\ req' = [pc |-> "intercept", perCall |-> perCall, auth |-> ConfigAuth(perCall)]
    /\ UNCHANGED <<storage, defaultAuth, token, user, loading, error, boot, ops, last>>

\* mutant of Intercept: the stored token fills in only a missing header
InterceptKeepsHeader(auth, stored) ==
    IF stored # NULL /\ auth = NoHeader THEN Bearer(stored) ELSE auth

\* the interceptor: getItem resolved with `stored`
Intercept(auth, stored) == IF stored # NULL THEN Bearer(stored) ELSE auth

\* getItem resolved: the interceptor returns the config and the request is sent
RequestDispatch ==
    /\ req.pc = "intercept"
    /\ req' = [req EXCEPT !.pc = "sent",
                           !.auth = Intercept(req.auth, storage.auth_token)]
    /\ UNCHANGED <<storage, defaultAuth, token, user, loading, error, boot, ops, last>>

\* getItem rejected: the interceptor rejects and nothing is sent
RequestAbort ==
    /\ req.pc = "intercept"
    /\ req' = IdleReq
    /\ UNCHANGED <<storage, defaultAuth, token, user, loading, error, boot, ops, last>>

\* the response (or a network error) arrives at the caller
RequestSettle ==
    /\ req.pc = "sent"
    /\ req' = IdleReq
    /\ UNCHANGED <<storage, defaultAuth, token, user, loading, error, boot, ops, last>>

(* --------------------------- specification ---------------------------- *)
\* Callers serialise their calls (the spec leaves overlapping calls to the
\* caller to avoid): one asynchronous operation at a time.
\* a step of the session manager leaves the screens alone
SessionStep == TrackOverlap /\ UNCHANGED screenVars

Next ==
    \/ RestoreResolve /\ SessionStep
    \/ RestoreReject /\ SessionStep
    \/ \E s \in Slots : LoginStart(s, TRUE) /\ SessionStep
    \/ \E s \in Slots, a \in Accounts, t \in Tokens :
          LoginPostResolve(s, a, t, a, a) /\ SessionStep
    \/ \E s \in Slots, rej \in Rejections : LoginPostReject(s, rej) /\ SessionStep
    \/ \E s \in Slots : LoginWriteResolve(s) /\ SessionStep
    \/ \E s \in Slots, applied \in PartialKeys :
          LoginWriteReject(s, applied) /\ SessionStep
    \/ \E s \in Slots : RegisterStart(s, TRUE) /\ SessionStep
    \/ \E s \in Slots, a \in Accounts, t \in Tokens :
          RegisterPostResolve(s, a, a, t, a) /\ SessionStep
    \/ \E s \in Slots, rej \in Rejections : RegisterPostReject(s, rej) /\ SessionStep
    \/ \E s \in Slots : RegisterWriteResolve(s) /\ SessionStep
    \/ \E s \in Slots, applied \in PartialKeys :
          RegisterWriteReject(s, applied) /\ SessionStep
    \/ \E s \in Slots : LogoutStart(s, TRUE) /\ SessionStep
    \/ \E s \in Slots : LogoutRemoveResolve(s) /\ SessionStep
    \/ \E s \in Slots, applied \in PartialKeys :
          LogoutRemoveReject(s, applied) /\ SessionStep
    \/ \E perCall \in BOOLEAN : RequestStart(perCall, TRUE) /\ SessionStep
    \/ RequestDispatch /\ SessionStep
    \/ RequestAbort /\ SessionStep
    \/ RequestSettle /\ SessionStep

Spec == Init /\ [][Next]_vars

\* The storage read of the boot effect settles: AsyncStorage.multiGet resolves
\* or rejects, and the effect's continuation is then run.
RestoreSettles == (RestoreResolve \/ RestoreReject) /\ SessionStep

SpecFair == Spec /\ WF_vars(RestoreSettles)

\* The session manager with nothing serialising its callers: the boot effect,
\* login and logout start whatever else is suspended (register, which differs
\* from login in its request and messages only, and the screens' requests
\* are left out).  A post that fails has no response and a storage call
\* that fails has applied nothing.
NextOverlap ==
    \/ RestoreResolve /\ SessionStep
    \/ RestoreReject /\ SessionStep
    \/ \E s \in Slots : LoginStart(s, FALSE) /\ SessionStep
    \/ \E s \in Slots, a \in Accounts, t \in Tokens :
          LoginPostResolve(s, a, t, a, a) /\ SessionStep
    \/ \E s \in Slots : LoginPostReject(s, NoResponse) /\ SessionStep
    \/ \E s \in Slots : LoginWriteResolve(s) /\ SessionStep
    \/ \E s \in Slots : LoginWriteReject(s, {}) /\ SessionStep
    \/ \E s \in Slots : LogoutStart(s, FALSE) /\ SessionStep
    \/ \E s \in Slots : LogoutRemoveResolve(s) /\ SessionStep
    \/ \E s \in Slots : LogoutRemoveReject(s, {}) /\ SessionStep

SpecOverlap == Init /\ [][NextOverlap]_vars


(* ----------------------------- HomeScreen ------------------------------ *)
\* Instants are counted in ticks, TicksPerDay to a calendar day; the days
\* run from 0 to MaxAge + 1 and the clock stands somewhere in day MaxAge, so
\* that a workout is dated up to MaxAge days back or a day ahead.
MaxWorkouts == 3
MaxAge == 2
TicksPerDay == 2

Today == MaxAge
Instants == 0 .. ((MaxAge + 2) * TicksPerDay - 1)
Clock == {Today * TicksPerDay + h : h \in 0 .. (TicksPerDay - 1)}

\* d.setHours(0,0,0,0); d.getTime()
StartOfDay(t) == (t \div TicksPerDay) * TicksPerDay
\* cursor.setDate(cursor.getDate() - 1)
PrevDay(t) == t - TicksPerDay

SeqsUpTo(S, n) == UNION {[1 .. k -> S] : k \in 0 .. n}
Workouts == [workout_date : Instants]
WorkoutLists == SeqsUpTo(Workouts, MaxWorkouts)

\* [...list].sort((a, b) => new Date(b.workout_date) - new Date(a.workout_date)):
\* latest first, entries of equal date in their order of the list.
\* RankDesc: the place of entry i in the sorted copy.
RankDesc(list, i) ==
    1 + Cardinality({j \in 1 .. Len(list) :
                       \/ list[j].workout_date > list[i].workout_date
                       \/ list[j].workout_date = list[i].workout_date /\ j < i})

SortDesc(list) ==
    [k \in 1 .. Len(list) |-> list[CHOOSE i \in 1 .. Len(list) : RankDesc(list, i) = k]]

\* the for loop of calcStreak from entry i on
RECURSIVE StreakLoop(_, _, _, _)
StreakLoop(sorted, i, days, cursor) ==
    IF i > Len(sorted) THEN days
    ELSE IF StartOfDay(sorted[i].workout_date) = cursor
         THEN StreakLoop(sorted, i + 1, days + 1, PrevDay(cursor))
         ELSE StreakLoop(sorted, i + 1, days, cursor)

\* mutant of calcStreak: the cursor is not moved after counting today
calcStreakCountsTodayTwice(list, now) ==
    IF Len(list) = 0 THEN 0
    ELSE LET sorted == SortDesc(list)
             today == StartOfDay(now)
             first == StartOfDay(sorted[1].workout_date)
         IN  IF first = today
             THEN StreakLoop(sorted, 1, 1, today)
             ELSE StreakLoop(sorted, 1, 0, today)

\* calcStreak: the value it passes to setStreak
calcStreak(list, now) ==
    IF Len(list) = 0 THEN 0
    ELSE LET sorted == SortDesc(list)
             today == StartOfDay(now)
             first == StartOfDay(sorted[1].workout_date)
         IN  IF first = today
             THEN StreakLoop(sorted, 1, 1, PrevDay(today))
             ELSE StreakLoop(sorted, 1, 0, today)

\* what the server answers: data of GET /workouts (with or without a
\* workouts member), data of GET /rankings/user/:id (an array or not), and
\* the status of a failed request (NoStatus: no response at all)
WorkoutPayloads ==
    {[present |-> TRUE, workouts |-> l] : l \in WorkoutLists}
        \cup {[present |-> FALSE, workouts |-> <<>>]}
RankingPayloads ==
    {[isArray |-> TRUE, items |-> <<>>], [isArray |-> TRUE, items |-> <<"Gold">>],
     [isArray |-> FALSE, items |-> <<>>]}
Unauthorized == 401
ServerError == 500
NoStatus == 0
Statuses == {Unauthorized, ServerError, NoStatus}

\* the first-load effect (refresh = FALSE) or onRefresh (refresh = TRUE)
\* calls loadData, which runs to its first await
HomeLoadStart(refresh) ==
    /\ home.pc = "idle" /\ home.route = "Home"
    /\ refresh \/ (token # NULL /\ user # NoUser)
    /\ home' = [home EXCEPT !.pc = "workouts", !.error = FALSE, !.loading = TRUE,
                            !.refreshing = refresh \/ home.refreshing,
                            !.unauthorized = FALSE,
                            !.sent = {"workouts"}, !.failed = {}]

\* GET /workouts resolved: setWorkouts(recent); calcStreak(recent); then the
\* rankings request is sent
HomeWorkoutsResolve(wData, now) ==
    /\ home.pc = "workouts"
    /\ LET recent == IF wData.present THEN wData.workouts ELSE <<>>
       IN  home' = [home EXCEPT !.pc = "rankings", !.workouts = recent,
                                !.workoutsFetched = TRUE,
                                !.streak = calcStreak(recent, now),
                                !.sent = home.sent \cup {"rankings"}]

\* GET /workouts rejected: the inner catch logs the status and sets the
\* empty list
HomeWorkoutsReject(status) ==
    /\ home.pc = "workouts"
    /\ home' = [home EXCEPT !.pc = "rankings", !.workouts = <<>>,
                            !.workoutsFetched = FALSE,
                            !.unauthorized = (status = Unauthorized),
                            !.sent = home.sent \cup {"rankings"},
                            !.failed = home.failed \cup {"workouts"}]

\* GET /rankings/user/:id resolved, then the finally block
HomeRankingsResolve(rData) ==
    /\ home.pc = "rankings"
    /\ home' = [home EXCEPT !.pc = "idle",
                            !.rankings = IF rData.isArray THEN rData.items ELSE <<>>,
                            !.loading = FALSE, !.refreshing = FALSE]

\* GET /rankings/user/:id rejected: the inner catch sets the empty list, then
\* the finally block
HomeRankingsReject(status) ==
    /\ home.pc = "rankings"
    /\ home' = [home EXCEPT !.pc = "idle", !.rankings = <<>>,
                            !.unauthorized = home.unauthorized \/ status = Unauthorized,
                            !.failed = home.failed \cup {"rankings"},
                            !.loading = FALSE, !.refreshing = FALSE]

\* a session at rest: a login of account a that got token t has completed
\* and nothing is in flight
SessionAtRest(t, a) ==
    /\ storage = MultiSet(t, Stringify(UserOf(a)))
    /\ defaultAuth = Bearer(t)
    /\ token = t
    /\ user = UserOf(a)
    /\ last = Result("login", "resolved", NoResponse, "success", "", t, UserOf(a))
    /\ loading = FALSE
    /\ error = ""
    /\ boot = "done"
    /\ ops = [s \in Slots |-> IdleOp]
    /\ req = IdleReq
    /\ overlap = NoOverlap

\* HomeScreen mounted over a session at rest
InitHome ==
    /\ \E t \in Tokens, a \in Accounts : SessionAtRest(t, a)
    /\ home = HomeMounted
    /\ workoutScreen = Unmounted(WorkoutMounted)
    /\ leaderboardScreen = Unmounted(LeaderboardMounted)
    /\ form = FormMounted
    /\ social = Unmounted(SocialMounted)

\* a step of HomeScreen leaves the session alone: no request of loadData
\* that fails reaches the outer catch, where logout is called
HomeStep == UNCHANGED <<sessionVars, overlap, listVars, form, social>>

\* HomeScreen from its mount to the end of its first load
NextHome ==
    \/ home = HomeMounted /\ HomeLoadStart(FALSE) /\ HomeStep
    \/ /\ home.pc = "workouts"
       /\ \E wData \in WorkoutPayloads, now \in Clock :
             HomeWorkoutsResolve(wData, now) /\ HomeStep
    \/ \E status \in Statuses : HomeWorkoutsReject(status) /\ HomeStep
    \/ \E rData \in RankingPayloads : HomeRankingsResolve(rData) /\ HomeStep
    \/ \E status \in Statuses : HomeRankingsReject(status) /\ HomeStep

SpecHome == InitHome /\ [][NextHome]_vars


(* ----------------------------- SocialScreen ----------------------------- *)
\* what the server answers: data of GET /social/shared-workouts and of
\* GET /social/friends (an array or not); an entry of the friends array may
\* be null, and f.user_id then throws in the activity feed
SharedPayloads ==
    {[isArray |-> TRUE, items |-> <<>>], [isArray |-> TRUE, items |-> <<"w1">>],
     [isArray |-> FALSE, items |-> <<>>]}
NullFriend == [isNull |-> TRUE, user_id |-> 0]
FriendPayloads ==
    {[isArray |-> TRUE, items |-> <<>>],
     [isArray |-> TRUE, items |-> <<[isNull |-> FALSE, user_id |-> 1]>>],
     [isArray |-> TRUE, items |-> <<NullFriend>>],
     [isArray |-> FALSE, items |-> <<>>]}
FeedLength == 5

\* friends.slice(0, 5).map((f) => ({ user_id: f.user_id, ... })); the
\* activity type, details and timestamp are random and are left out
ActivityOf(friends) ==
    [i \in 1 .. (IF Len(friends) < FeedLength THEN Len(friends) ELSE FeedLength)
        |-> friends[i].user_id]

\* onRefresh, or handleJoinWorkout after its POST: loadData runs to its
\* first await
SocialLoadStart(refresh) ==
    /\ social.mounted /\ social.pc = "idle"
    /\ social' = [social EXCEPT !.pc = "shared", !.error = FALSE, !.loading = TRUE,
                                !.refreshing = refresh \/ social.refreshing,
                                !.sent = {"shared"}, !.failed = {}]

\* GET /social/shared-workouts resolved, then the friends request is sent
SocialSharedResolve(sw) ==
    /\ social.pc = "shared"
    /\ social' = [social EXCEPT !.pc = "friends",
                                !.sharedWorkouts = IF sw.isArray THEN sw.items ELSE <<>>,
                                !.sent = social.sent \cup {"friends"}]

\* mutant of SocialSharedReject: the failure reaches the outer catch
SocialSharedRejectAborts(status) ==
    /\ social.pc = "shared"
    /\ social' = [social EXCEPT !.pc = "idle", !.sharedWorkouts = <<>>,
                                !.error = TRUE,
                                !.failed = social.failed \cup {"shared"},
                                !.loading = FALSE, !.refreshing = FALSE]

\* GET /social/shared-workouts rejected: the inner catch sets the empty list
SocialSharedReject(status) ==
    /\ social.pc = "shared"
    /\ social' = [social EXCEPT !.pc = "friends", !.sharedWorkouts = <<>>,
                                !.sent = social.sent \cup {"friends"},
                                !.failed = social.failed \cup {"shared"}]

\* GET /social/friends resolved: setFriends, the activity feed (the outer
\* catch when an entry is null), then the finally block
SocialFriendsResolve(fr) ==
    /\ social.pc = "friends"
    /\ LET friends == IF fr.isArray THEN fr.items ELSE <<>>
           throws == \E i \in 1 .. Len(friends) : i <= FeedLength /\ friends[i].isNull
       IN  social' = [social EXCEPT !.pc = "idle", !.friends = friends,
                                    !.activityFeed = IF throws THEN social.activityFeed
                                                     ELSE ActivityOf(friends),
                                    !.error = throws,
                                    !.loading = FALSE, !.refreshing = FALSE]

\* GET /social/friends rejected: the inner catch sets the empty list, the
\* activity feed is built from no friends, then the finally block
SocialFriendsReject(status) ==
    /\ social.pc = "friends"
    /\ social' = [social EXCEPT !.pc = "idle", !.friends = <<>>,
                                !.activityFeed = <<>>,
                                !.failed = social.failed \cup {"friends"},
                                !.loading = FALSE, !.refreshing = FALSE]


(* ---------------- HomeScreen and SocialScreen, refreshed ---------------- *)
\* The screen in front is SocialScreen once it is mounted and HomeScreen
\* before; only the screen in front is pulled to refresh.  GET /workouts
\* answers with at most one workout here.
ShortPayloads == {w \in WorkoutPayloads : Len(w.workouts) <= 1}

InitRefresh ==
    /\ SessionAtRest(1, 1)
    /\ home = HomeMounted
    /\ workoutScreen = Unmounted(WorkoutMounted)
    /\ leaderboardScreen = Unmounted(LeaderboardMounted)
    /\ form = FormMounted
    /\ social \in {SocialMounted, Unmounted(SocialMounted)}

SocialStep == UNCHANGED <<sessionVars, overlap, home, listVars, form>>

NextRefresh ==
    \/ /\ ~social.mounted /\ home = HomeMounted
       /\ HomeLoadStart(FALSE) /\ HomeStep
    \/ /\ ~social.mounted /\ home # HomeMounted /\ ~home.loading
       /\ HomeLoadStart(TRUE) /\ HomeStep
    \/ /\ home.pc = "workouts"
       /\ \E wData \in ShortPayloads, now \in Clock :
             HomeWorkoutsResolve(wData, now) /\ HomeStep
    \/ \E status \in Statuses : HomeWorkoutsReject(status) /\ HomeStep
    \/ \E rData \in RankingPayloads : HomeRankingsResolve(rData) /\ HomeStep
    \/ \E status \in Statuses : HomeRankingsReject(status) /\ HomeStep
    \/ \E refresh \in BOOLEAN : SocialLoadStart(refresh) /\ SocialStep
    \/ \E sw \in SharedPayloads : SocialSharedResolve(sw) /\ SocialStep
    \/ \E status \in Statuses : SocialSharedReject(status) /\ SocialStep
    \/ \E fr \in FriendPayloads : SocialFriendsResolve(fr) /\ SocialStep
    \/ \E status \in Statuses : SocialFriendsReject(status) /\ SocialStep

SpecRefresh == InitRefresh /\ [][NextRefresh]_vars

(* ------------------ WorkoutScreen, LeaderboardScreen ------------------- *)
\* Strings are sequences of characters.  A search query has up to MaxQuery
\* characters of Chars; a loaded list has up to MaxList entries.
MaxQuery == 2
MaxList == 2
Chars == {"a", "A", " ", "1"}
Queries == SeqsUpTo(Chars, MaxQuery)

\* String.prototype.toLowerCase
LowerChar(c) == IF c = "A" THEN "a" ELSE IF c = "B" THEN "b" ELSE c
toLowerCase(str) == [i \in 1 .. Len(str) |-> LowerChar(str[i])]

\* String.prototype.trim: leading and trailing white space removed
trim(str) ==
    LET inked == {i \in 1 .. Len(str) : str[i] # " "}
    IN  IF inked = {} THEN <<>>
        ELSE SubSeq(str, CHOOSE i \in inked : \A j \in inked : i <= j,
                         CHOOSE i \in inked : \A j \in inked : j <= i)

\* String.prototype.includes
includes(str, query) ==
    \E i \in 0 .. (Len(str) - Len(query)) : SubSeq(str, i + 1, i + Len(query)) = query

\* new Date(workout_date).toLocaleDateString(): the calendar day of the
\* instant, written in digits
DateDigits == <<"1", "2">>
toLocaleDateString(t) == <<DateDigits[(t \div TicksPerDay) + 1]>>

\* the workouts and leaderboard entries a server answers with
SampleWorkouts ==
    {[workout_id |-> 1, workout_name |-> <<"A">>, workout_date |-> TicksPerDay,
      exercises |-> <<>>],
     [workout_id |-> 2, workout_name |-> <<"b">>, workout_date |-> 1,
      exercises |-> <<>>],
     [workout_id |-> 3, workout_name |-> <<"B">>, workout_date |-> TicksPerDay,
      exercises |-> <<[name |-> <<"b">>], [name |-> <<"a", " ", "A">>]>>],
     [workout_id |-> 4, workout_name |-> <<"b", "B">>, workout_date |-> TicksPerDay + 1,
      exercises |-> <<[name |-> <<"b">>]>>]}
SampleEntries ==
    {[username |-> <<"A">>], [username |-> <<"a", " ", "1">>], [username |-> <<"b">>]}

\* the predicate of workouts.filter
MatchesWorkout(workout, query) ==
    \/ includes(toLowerCase(workout.workout_name), query)
    \/ includes(toLocaleDateString(workout.workout_date), query)
    \/ \E k \in 1 .. Len(workout.exercises) :
          includes(toLowerCase(workout.exercises[k].name), query)

\* mutant of FilterWorkouts: the query is not trimmed before the test
FilterWorkoutsNoTrim(workouts, searchQuery) ==
    IF searchQuery = <<>> THEN workouts
    ELSE LET query == toLowerCase(searchQuery)
             Keep(workout) == MatchesWorkout(workout, query)
         IN  SelectSeq(workouts, Keep)

\* mutant of FilterWorkouts: the query is used as typed
FilterWorkoutsRawQuery(workouts, searchQuery) ==
    IF trim(searchQuery) = <<>> THEN workouts
    ELSE LET Keep(workout) == MatchesWorkout(workout, searchQuery)
         IN  SelectSeq(workouts, Keep)

\* the filter effect of WorkoutScreen: the value it passes to
\* setFilteredWorkouts
FilterWorkouts(workouts, searchQuery) ==
    IF trim(searchQuery) = <<>> THEN workouts
    ELSE LET query == toLowerCase(searchQuery)
             Keep(workout) == MatchesWorkout(workout, query)
         IN  SelectSeq(workouts, Keep)

\* the filter effect of LeaderboardScreen: the value it passes to
\* setFilteredLeaderboard
FilterLeaderboard(leaderboard, searchQuery) ==
    IF trim(searchQuery) = <<>> THEN leaderboard
    ELSE LET query == toLowerCase(searchQuery)
             Keep(entry) == includes(toLowerCase(entry.username), query)
         IN  SelectSeq(leaderboard, Keep)

\* Searchbar onChangeText = setSearchQuery, then the filter effect
WorkoutSetSearchQuery(text) ==
    /\ workoutScreen.mounted
    /\ workoutScreen' =
           [workoutScreen EXCEPT
               !.searchQuery = text,
               !.filteredWorkouts = FilterWorkouts(workoutScreen.workouts, text)]

\* onRefresh: setRefreshing(true); loadWorkouts() up to its await
WorkoutRefresh ==
    /\ workoutScreen.mounted /\ workoutScreen.pc = "idle"
    /\ workoutScreen' = [workoutScreen EXCEPT !.pc = "load", !.refreshing = TRUE,
                                              !.error = FALSE, !.loading = TRUE]

\* GET /workouts resolved: setWorkouts, setFilteredWorkouts, finally; the
\* filter effect runs because workouts changed
WorkoutLoadResolve(list) ==
    /\ workoutScreen.pc = "load"
    /\ workoutScreen' =
           [workoutScreen EXCEPT
               !.pc = "idle", !.workouts = list,
               !.filteredWorkouts = FilterWorkouts(list, workoutScreen.searchQuery),
               !.loading = FALSE, !.refreshing = FALSE]

\* GET /workouts rejected: catch, finally
WorkoutLoadReject ==
    /\ workoutScreen.pc = "load"
    /\ workoutScreen' = [workoutScreen EXCEPT !.pc = "idle", !.error = TRUE,
                                              !.loading = FALSE, !.refreshing = FALSE]

\* workouts.filter(w => w.workout_id !== workoutId)
WithoutWorkout(list, workoutId) ==
    SelectSeq(list, LAMBDA w : w.workout_id # workoutId)

\* handleDeleteWorkout(workoutId) from the card of a workout on display, and
\* 'Delete' pressed in the alert: DELETE /workouts/:id is sent.  The handler
\* keeps the workouts of the render in which it was created (captured).
\* deletes: the requests in flight, at most one per workout.
WorkoutDeleteStart(workoutId) ==
    /\ workoutScreen.mounted /\ (~workoutScreen.loading \/ workoutScreen.refreshing)
    /\ \E i \in 1 .. Len(workoutScreen.filteredWorkouts) :
          workoutScreen.filteredWorkouts[i].workout_id = workoutId
    /\ \A d \in workoutScreen.deletes : d.workoutId # workoutId
    /\ workoutScreen' =
           [workoutScreen EXCEPT
               !.deletes = @ \cup {[workoutId |-> workoutId,
                                    captured |-> workoutScreen.workouts]}]

\* DELETE resolved: setWorkouts(updatedWorkouts);
\* setFilteredWorkouts(updatedWorkouts); the filter effect runs because
\* workouts is a new array.  deleted: the workouts whose DELETE has succeeded.
WorkoutDeleteResolve(d) ==
    /\ d \in workoutScreen.deletes
    /\ LET updatedWorkouts == WithoutWorkout(d.captured, d.workoutId)
       IN  workoutScreen' =
               [workoutScreen EXCEPT
                   !.deletes = @ \ {d}, !.deleted = @ \cup {d.workoutId},
                   !.workouts = updatedWorkouts,
                   !.filteredWorkouts =
                       FilterWorkouts(updatedWorkouts, workoutScreen.searchQuery)]

\* DELETE rejected: the catch logs and shows an alert
WorkoutDeleteReject(d) ==
    /\ d \in workoutScreen.deletes
    /\ workoutScreen' = [workoutScreen EXCEPT !.deletes = @ \ {d}]

\* Searchbar onChangeText = setSearchQuery, then the filter effect
LeaderboardSetSearchQuery(text) ==
    /\ leaderboardScreen.mounted
    /\ leaderboardScreen' =
           [leaderboardScreen EXCEPT
               !.searchQuery = text,
               !.filteredLeaderboard =
                   FilterLeaderboard(leaderboardScreen.leaderboard, text)]

\* the requests of loadLeaderboard that may be in flight together
MaxInFlight == 2

\* loadLeaderboard up to its await, called in a render whose filters are f:
\* setError(null); setLoading(true); the request carries f.  pc is "load"
\* while a request is in flight; shown records which request's response is
\* the leaderboard in state.
LoadLeaderboard(screen, f) ==
    LET id == CHOOSE i \in 1 .. (MaxInFlight + 1) :
                  /\ \A r \in screen.inflight : r.id # i
                  /\ \A j \in 1 .. (i - 1) : \E r \in screen.inflight : r.id = j
        sent == screen.inflight \cup {[id |-> id, filters |-> f]}
    IN  [screen EXCEPT !.pc = "load", !.error = FALSE, !.loading = TRUE,
                       !.inflight = sent]

\* the screen shows its controls unless it renders the loading view
\* (loading && !refreshing)
ControlsShown(screen) == screen.mounted /\ (~screen.loading \/ screen.refreshing)

\* onRefresh: setRefreshing(true); loadLeaderboard() up to its await.  The
\* refresh control does not fire while it shows a refresh.  serial: the
\* callers wait for the load in flight.
LeaderboardRefresh(serial) ==
    /\ ControlsShown(leaderboardScreen) /\ ~leaderboardScreen.refreshing
    /\ serial => leaderboardScreen.pc = "idle"
    /\ Cardinality(leaderboardScreen.inflight) < MaxInFlight
    /\ leaderboardScreen' =
           [LoadLeaderboard(leaderboardScreen, leaderboardScreen.filters)
               EXCEPT !.refreshing = TRUE]

\* setUserFilter / setMuscleGroup / setAgeRange from a filter control; the
\* load effect runs when the value differs from the one in state (an age
\* range other than null is a new object on every render, so it always
\* differs), and calls the loadLeaderboard of the new render
LeaderboardSetFilter(field, value) ==
    /\ ControlsShown(leaderboardScreen)
    /\ Cardinality(leaderboardScreen.inflight) < MaxInFlight
    /\ \/ leaderboardScreen.filters[field] # value
       \/ field = "ageRange" /\ value # AllAges
    /\ LET f == [leaderboardScreen.filters EXCEPT ![field] = value]
       IN  leaderboardScreen' =
               [LoadLeaderboard(leaderboardScreen, f) EXCEPT !.filters = f]

\* GET of the leaderboard (request r) resolved: setLeaderboard,
\* setFilteredLeaderboard, finally; the filter effect runs because
\* leaderboard changed
LeaderboardLoadResolve(r, list) ==
    /\ r \in leaderboardScreen.inflight
    /\ LET rest == leaderboardScreen.inflight \ {r}
       IN  leaderboardScreen' =
               [leaderboardScreen EXCEPT
                   !.pc = IF rest = {} THEN "idle" ELSE "load",
                   !.inflight = rest,
                   !.leaderboard = list, !.shown = r.filters,
                   !.filteredLeaderboard =
                       FilterLeaderboard(list, leaderboardScreen.searchQuery),
                   !.loading = FALSE, !.refreshing = FALSE]

\* GET of the leaderboard (request r) rejected: catch, finally
LeaderboardLoadReject(r) ==
    /\ r \in leaderboardScreen.inflight
    /\ LET rest == leaderboardScreen.inflight \ {r}
       IN  leaderboardScreen' =
               [leaderboardScreen EXCEPT
                   !.pc = IF rest = {} THEN "idle" ELSE "load",
                   !.inflight = rest, !.error = TRUE,
                   !.loading = FALSE, !.refreshing = FALSE]

\* one of the two list screens mounted over a session at rest
InitLists ==
    /\ SessionAtRest(1, 1)
    /\ home = HomeMounted
    /\ form = FormMounted
    /\ social = Unmounted(SocialMounted)
    /\ \/ /\ workoutScreen = WorkoutMounted
          /\ leaderboardScreen = Unmounted(LeaderboardMounted)
       \/ /\ workoutScreen = Unmounted(WorkoutMounted)
          /\ leaderboardScreen = LeaderboardMounted

\* a step of one list screen leaves the session and the other screens alone
WorkoutStep == UNCHANGED <<sessionVars, overlap, home, leaderboardScreen, form, social>>
LeaderboardStep == UNCHANGED <<sessionVars, overlap, home, workoutScreen, form, social>>

NextLists ==
    \/ /\ workoutScreen.mounted
       /\ \E text \in Queries : WorkoutSetSearchQuery(text) /\ WorkoutStep
    \/ WorkoutRefresh /\ WorkoutStep
    \/ /\ workoutScreen.pc = "load"
       /\ \E list \in SeqsUpTo(SampleWorkouts, MaxList) :
             WorkoutLoadResolve(list) /\ WorkoutStep
    \/ WorkoutLoadReject /\ WorkoutStep
    \/ /\ leaderboardScreen.mounted
       /\ \E text \in Queries : LeaderboardSetSearchQuery(text) /\ LeaderboardStep
    \/ LeaderboardRefresh(TRUE) /\ LeaderboardStep
    \/ /\ leaderboardScreen.pc = "load"
       /\ \E r \in leaderboardScreen.inflight, list \in SeqsUpTo(SampleEntries, MaxList) :
             LeaderboardLoadResolve(r, list) /\ LeaderboardStep
    \/ /\ leaderboardScreen.pc = "load"
       /\ \E r \in leaderboardScreen.inflight : LeaderboardLoadReject(r) /\ LeaderboardStep

SpecLists == InitLists /\ [][NextLists]_vars

\* WorkoutScreen from its mount: the first load, then deletes from the cards
WorkoutIds == {w.workout_id : w \in SampleWorkouts}

InitDelete ==
    /\ SessionAtRest(1, 1)
    /\ home = HomeMounted
    /\ form = FormMounted
    /\ social = Unmounted(SocialMounted)
    /\ workoutScreen = WorkoutMounted
    /\ leaderboardScreen = Unmounted(LeaderboardMounted)

NextDelete ==
    \/ /\ workoutScreen.pc = "load"
       /\ \E list \in SeqsUpTo(SampleWorkouts, MaxList) :
             WorkoutLoadResolve(list) /\ WorkoutStep
    \/ WorkoutLoadReject /\ WorkoutStep
    \/ \E workoutId \in WorkoutIds : WorkoutDeleteStart(workoutId) /\ WorkoutStep
    \/ \E d \in workoutScreen.deletes : WorkoutDeleteResolve(d) /\ WorkoutStep
    \/ \E d \in workoutScreen.deletes : WorkoutDeleteReject(d) /\ WorkoutStep

SpecDelete == InitDelete /\ [][NextDelete]_vars

\* LeaderboardScreen with its filter controls: loads are started by the load
\* effect and by onRefresh whether or not a request is in flight; the server
\* answers a request with one of BoardAnswers
BoardAnswers == SeqsUpTo(SampleEntries, 1)

InitBoard ==
    /\ SessionAtRest(1, 1)
    /\ home = HomeMounted
    /\ form = FormMounted
    /\ social = Unmounted(SocialMounted)
    /\ workoutScreen = Unmounted(WorkoutMounted)
    /\ leaderboardScreen = LeaderboardMounted

NextBoard ==
    \/ LeaderboardRefresh(FALSE) /\ LeaderboardStep
    \/ \E value \in UserFilters :
          LeaderboardSetFilter("userFilter", value) /\ LeaderboardStep
    \/ \E value \in MuscleGroups :
          LeaderboardSetFilter("muscleGroup", value) /\ LeaderboardStep
    \/ \E value \in AgeRanges :
          LeaderboardSetFilter("ageRange", value) /\ LeaderboardStep
    \/ /\ leaderboardScreen.pc = "load"
       /\ \E r \in leaderboardScreen.inflight, list \in BoardAnswers :
             LeaderboardLoadResolve(r, list) /\ LeaderboardStep
    \/ /\ leaderboardScreen.pc = "load"
       /\ \E r \in leaderboardScreen.inflight : LeaderboardLoadReject(r) /\ LeaderboardStep

SpecBoard == InitBoard /\ [][NextBoard]_vars


(* ------------------------- CreateWorkoutScreen -------------------------- *)
\* The form holds at most MaxSets sets in all (an exercise is added with one
\* set).  Exercises are told apart by their place in the list: their ids are
\* taken to differ.
MaxSets == 3

\* what is typed into the name field and into a weight or reps field
NameTexts == {<<>>, <<" ">>, <<"L">>}
FieldTexts == {"", "5"}

\* EXERCISE_CATEGORIES[cat].exercises, by name
CategoryExercises(cat) ==
    IF cat = "Legs" THEN <<"Squat", "Leg Press", "Lunge">>
    ELSE IF cat = "Chest" THEN <<"Bench Press", "Incline Bench Press">>
    ELSE <<>>
\* what the exercise modal offers: addExercise(exercise, category)
Catalogue == {[name |-> "Squat", category |-> "Legs"],
              [name |-> "Bench Press", category |-> "Chest"]}
\* workoutTemplates (of the templates with exercises, the one of one category)
Templates == {[id |-> "legs", categories |-> <<"Legs">>],
              [id |-> "custom", categories |-> <<>>]}

\* { weight: '', reps: '', completed: false }
EmptySet == [weight |-> "", reps |-> "", completed |-> FALSE]
NewExercise(name, category) ==
    [name |-> name, category |-> category, sets |-> <<EmptySet>>]

\* EXERCISE_CATEGORIES[cat]?.exercises?.slice(0, 2) || []
FirstTwo(cat) ==
    SubSeq(CategoryExercises(cat), 1,
           IF Len(CategoryExercises(cat)) < 2 THEN Len(CategoryExercises(cat)) ELSE 2)

\* templateExercises: for every category of the template its first two
\* exercises, each with one empty set
RECURSIVE TemplateExercises(_)
TemplateExercises(categories) ==
    IF categories = <<>> THEN <<>>
    ELSE [k \in 1 .. Len(FirstTwo(Head(categories))) |->
              NewExercise(FirstTwo(Head(categories))[k], Head(categories))]
         \o TemplateExercises(Tail(categories))

RECURSIVE TotalSets(_)
TotalSets(exercises) ==
    IF exercises = <<>> THEN 0
    ELSE Len(Head(exercises).sets) + TotalSets(Tail(exercises))

\* exercises.some(e => e.sets.some(s => s.weight && s.reps))
SomeSetFilled(exercises) ==
    \E k \in 1 .. Len(exercises) : \E i \in 1 .. Len(exercises[k].sets) :
        exercises[k].sets[i].weight # "" /\ exercises[k].sets[i].reps # ""

\* calculateProgress of the first version of the screen, in hundredths
calculateProgress(f) ==
    (IF f.workoutName # <<>> THEN 25 ELSE 0)
        + (IF f.selectedTemplate # NoTemplate THEN 25 ELSE 0)
        + (IF Len(f.exercises) > 0 THEN 25 ELSE 0)
        + (IF SomeSetFilled(f.exercises) THEN 25 ELSE 0)

\* mutant of calculateProgress2: three equal shares
calculateProgressThirds(f) ==
    (IF f.workoutName # <<>> THEN 33 ELSE 0)
        + (IF f.selectedTemplate # NoTemplate THEN 33 ELSE 0)
        + (IF Len(f.exercises) > 0 THEN 33 ELSE 0)

\* calculateProgress of the second version of the screen, in hundredths
calculateProgress2(f) ==
    (IF f.workoutName # <<>> THEN 33 ELSE 0)
        + (IF f.selectedTemplate # NoTemplate THEN 33 ELSE 0)
        + (IF Len(f.exercises) > 0 THEN 34 ELSE 0)

\* TextInput onChangeText = setWorkoutName
SetWorkoutName(text) == form' = [form EXCEPT !.workoutName = text]

handleTemplateSelect(template) ==
    form' = [form EXCEPT
                !.selectedTemplate = template.id,
                !.exercises = IF template.id # "custom"
                              THEN TemplateExercises(template.categories)
                              ELSE <<>>]

addExercise(exercise, category) ==
    /\ TotalSets(form.exercises) < MaxSets
    /\ form' = [form EXCEPT
                   !.exercises = Append(form.exercises,
                                        NewExercise(exercise.name, category))]

\* removeExercise(id), id that of the k-th exercise
removeExercise(k) ==
    /\ k \in 1 .. Len(form.exercises)
    /\ form' = [form EXCEPT
                   !.exercises = SubSeq(form.exercises, 1, k - 1)
                                 \o SubSeq(form.exercises, k + 1, Len(form.exercises))]

\* addSet(exerciseId), exerciseId that of the k-th exercise
addSet(k) ==
    /\ k \in 1 .. Len(form.exercises)
    /\ TotalSets(form.exercises) < MaxSets
    /\ form' = [form EXCEPT !.exercises[k].sets = Append(@, EmptySet)]

\* mutant of removeSet: the button is shown for the only set too
removeSetOfferedAlways(k, setIndex) ==
    /\ k \in 1 .. Len(form.exercises)
    /\ setIndex \in 1 .. Len(form.exercises[k].sets)
    /\ form' = [form EXCEPT
                   !.exercises[k].sets =
                       SubSeq(@, 1, setIndex - 1) \o SubSeq(@, setIndex + 1, Len(@))]

\* removeSet(exerciseId, setIndex): the button is shown while the exercise
\* has more than one set
removeSet(k, setIndex) ==
    /\ k \in 1 .. Len(form.exercises)
    /\ Len(form.exercises[k].sets) > 1
    /\ setIndex \in 1 .. Len(form.exercises[k].sets)
    /\ form' = [form EXCEPT
                   !.exercises[k].sets =
                       SubSeq(@, 1, setIndex - 1) \o SubSeq(@, setIndex + 1, Len(@))]

\* updateSet(exerciseId, setIndex, field, value), from the weight and reps
\* inputs of a set
updateSet(k, setIndex, field, value) ==
    /\ k \in 1 .. Len(form.exercises)
    /\ setIndex \in 1 .. Len(form.exercises[k].sets)
    /\ form' = [form EXCEPT !.exercises[k].sets[setIndex][field] = value]

\* CreateWorkoutScreen mounted over a session at rest
InitForm ==
    /\ SessionAtRest(1, 1)
    /\ home = HomeMounted
    /\ workoutScreen = Unmounted(WorkoutMounted)
    /\ leaderboardScreen = Unmounted(LeaderboardMounted)
    /\ form = FormMounted
    /\ social = Unmounted(SocialMounted)

\* a step of the form leaves the session and the other screens alone
FormStep == UNCHANGED <<sessionVars, overlap, home, listVars, social>>

NextForm ==
    \/ \E text \in NameTexts : SetWorkoutName(text) /\ FormStep
    \/ \E template \in Templates : handleTemplateSelect(template) /\ FormStep
    \/ \E exercise \in Catalogue : addExercise(exercise, exercise.category) /\ FormStep
    \/ \E k \in 1 .. MaxSets : removeExercise(k) /\ FormStep
    \/ \E k \in 1 .. MaxSets : addSet(k) /\ FormStep
    \/ \E k \in 1 .. MaxSets, setIndex \in 1 .. MaxSets :
          removeSet(k, setIndex) /\ FormStep
    \/ \E k \in 1 .. MaxSets, setIndex \in 1 .. MaxSets,
          field \in {"weight", "reps"}, value \in FieldTexts :
          updateSet(k, setIndex, field, value) /\ FormStep

SpecForm == InitForm /\ [][NextForm]_vars


(* ------------------ CreateWorkoutScreen: saveWorkout -------------------- *)
\* what GET /exercises answers: data that is an array of { name,
\* exercise_id } or not an array; and the error of a rejected request
\* (e.response?.data?.error, e.message)
ExerciseAnswers ==
    {[isArray |-> TRUE,
      items |-> <<[name |-> "Squat", exercise_id |-> 1],
                  [name |-> "Leg Press", exercise_id |-> 2],
                  [name |-> "Bench Press", exercise_id |-> 3]>>],
     [isArray |-> TRUE,
      items |-> <<[name |-> "Squat", exercise_id |-> 1],
                  [name |-> "Leg Press", exercise_id |-> 2]>>],
     [isArray |-> TRUE,
      items |-> <<[name |-> "Squat", exercise_id |-> 1],
                  [name |-> "Leg Press", exercise_id |-> 2],
                  [name |-> "Bench Press", exercise_id |-> 3],
                  [name |-> "Squat", exercise_id |-> 0]>>],
     [isArray |-> TRUE, items |-> <<>>],
     [isArray |-> FALSE, items |-> <<>>]}
RequestErrors ==
    {[error |-> "Invalid workout", message |-> "Request failed with status code 400"],
     [error |-> "", message |-> "Network Error"],
     [error |-> "", message |-> ""]}

\* e.response?.data?.error || e.message || 'Failed to save workout'
SaveError(e) ==
    [text |-> IF e.error # "" THEN e.error
              ELSE IF e.message # "" THEN e.message
              ELSE "Failed to save workout",
     name |-> ""]

\* exerciseMap[name] after allExercises.forEach(ex => exerciseMap[ex.name] =
\* ex.exercise_id): the id of the last entry of that name, 0 (falsy) when
\* there is none
ExerciseId(items, name) ==
    LET at == {i \in 1 .. Len(items) : items[i].name = name}
    IN  IF at = {} THEN 0
        ELSE items[CHOOSE i \in at : \A j \in at : j <= i].exercise_id

\* the first exercise whose id is missing (exercises.map throws there), 0
\* when every exercise has one
FirstNotFound(items, exercises) ==
    LET missing == {k \in 1 .. Len(exercises) : ExerciseId(items, exercises[k].name) = 0}
    IN  IF missing = {} THEN 0 ELSE CHOOSE k \in missing : \A j \in missing : k <= j

\* exercise.sets.find(s => s.weight && s.reps) || exercise.sets[0]
ValidSet(sets) ==
    LET filled == {i \in 1 .. Len(sets) : sets[i].weight # "" /\ sets[i].reps # ""}
    IN  IF filled = {} THEN sets[1]
        ELSE sets[CHOOSE i \in filled : \A j \in filled : i <= j]

\* parseInt(text, 10) || 10 and parseFloat(text) || 0, for the texts of
\* FieldTexts
RepsOf(text) == IF text = "5" THEN 5 ELSE 10
WeightOf(text) == IF text = "5" THEN 5 ELSE 0

\* apiExercises
ApiExercises(items, exercises) ==
    [k \in 1 .. Len(exercises) |->
        [exercise_id |-> ExerciseId(items, exercises[k].name),
         sets |-> Len(exercises[k].sets),
         reps |-> RepsOf(ValidSet(exercises[k].sets).reps),
         weight |-> WeightOf(ValidSet(exercises[k].sets).weight)]]

\* the Save button (disabled while saving): saveWorkout up to its first
\* return or await
saveWorkoutStart ==
    /\ form.route = "CreateWorkout" /\ ~form.saving
    /\ form' =
           IF trim(form.workoutName) = <<>>
           THEN [form EXCEPT !.errMsg = [text |-> "Please enter a workout name",
                                         name |-> ""]]
           ELSE IF Len(form.exercises) = 0
           THEN [form EXCEPT !.errMsg = [text |-> "Add at least one exercise",
                                         name |-> ""]]
           ELSE [form EXCEPT !.errMsg = NoErr, !.saving = TRUE,
                             !.save = [pc |-> "get", workoutName |-> form.workoutName,
                                       exercises |-> form.exercises,
                                       catalogue |-> <<>>, body |-> <<>>]]

\* mutant of saveWorkoutGetResolve: an exercise without an id is sent with
\* the id it has
saveWorkoutGetResolveNoLookupCheck(allExercises) ==
    /\ form.save.pc = "get"
    /\ form' =
           IF ~allExercises.isArray
           THEN [form EXCEPT !.errMsg = [text |-> "allExercises.forEach is not a function",
                                         name |-> ""],
                             !.saving = FALSE, !.save = NoSave]
           ELSE [form EXCEPT !.save.pc = "post",
                             !.save.catalogue = allExercises.items]

\* GET /exercises resolved: the map of names to ids, apiExercises (which
\* throws at the first exercise without an id, or when the data is not an
\* array), then POST /workouts is sent
saveWorkoutGetResolve(allExercises) ==
    /\ form.save.pc = "get"
    /\ LET k == FirstNotFound(allExercises.items, form.save.exercises)
       IN  form' =
               IF ~allExercises.isArray
               THEN [form EXCEPT !.errMsg = [text |-> "allExercises.forEach is not a function",
                                             name |-> ""],
                                 !.saving = FALSE, !.save = NoSave]
               ELSE IF k # 0
               THEN [form EXCEPT !.errMsg = [text |-> "Exercise not found in database",
                                             name |-> form.save.exercises[k].name],
                                 !.saving = FALSE, !.save = NoSave]
               ELSE [form EXCEPT !.save.pc = "post",
                                 !.save.catalogue = allExercises.items,
                                 !.save.body = ApiExercises(allExercises.items,
                                                            form.save.exercises)]

\* GET /exercises rejected: catch, finally
saveWorkoutGetReject(e) ==
    /\ form.save.pc = "get"
    /\ form' = [form EXCEPT !.errMsg = SaveError(e), !.saving = FALSE,
                            !.save = NoSave]

\* POST /workouts resolved: navigation.goBack(), finally
saveWorkoutPostResolve ==
    /\ form.save.pc = "post"
    /\ form' = [form EXCEPT !.route = "back", !.saving = FALSE, !.save = NoSave]

\* POST /workouts rejected: catch, finally
saveWorkoutPostReject(e) ==
    /\ form.save.pc = "post"
    /\ form' = [form EXCEPT !.errMsg = SaveError(e), !.saving = FALSE,
                            !.save = NoSave]

\* the form while it is on screen: name, template, added exercises, and
\* saveWorkout
NextSave ==
    \/ /\ form.route = "CreateWorkout"
       /\ \E text \in NameTexts : SetWorkoutName(text) /\ FormStep
    \/ /\ form.route = "CreateWorkout"
       /\ \E template \in Templates : handleTemplateSelect(template) /\ FormStep
    \/ /\ form.route = "CreateWorkout"
       /\ \E exercise \in Catalogue : addExercise(exercise, exercise.category) /\ FormStep
    \/ saveWorkoutStart /\ FormStep
    \/ /\ form.save.pc = "get"
       /\ \E allExercises \in ExerciseAnswers :
             saveWorkoutGetResolve(allExercises) /\ FormStep
    \/ \E e \in RequestErrors : saveWorkoutGetReject(e) /\ FormStep
    \/ saveWorkoutPostResolve /\ FormStep
    \/ \E e \in RequestErrors : saveWorkoutPostReject(e) /\ FormStep

SpecSave == InitForm /\ [][NextSave]_vars


(* ------------------------------ claims -------------------------------- *)
SessionKinds == {"login", "register"}
NoStorage == [auth_token |-> NULL, user |-> Absent]
\* durable storage holds a token and a user record JSON.parse accepts
StoredSession ==
    /\ storage.auth_token # NULL
    /\ storage.user # Absent
    /\ Parses(storage.user)

\* C1: once the boot restore has finished, the in-memory token and user are
\* both present or both absent, whatever pair durable storage held.
C1_TokenAndUserTogether ==
    boot = "done" => (token = NULL <=> user = NoUser)

\* C2: a login or register whose post and storage write both resolved has
\* returned {success: true}; storage holds the returned token and the new user
\* record, the in-memory token and user equal them, and a request sent next
\* carries Authorization: Bearer <that token>.
C2_LoginSuccess ==
    (NoSessionOp /\ last.kind \in SessionKinds /\ last.io = "resolved") =>
        /\ last.outcome = "success"
        /\ storage = MultiSet(last.tok, Stringify(last.usr))
        /\ token = last.tok
        /\ user = last.usr
        /\ (req.pc = "sent" => req.auth = Bearer(last.tok))

\* C2 witness: after a successful login, a request built with the default
\* header has been sent.
C2_Witness ==
    /\ NoSessionOp /\ last.kind = "login" /\ last.io = "resolved"
    /\ req.pc = "sent" /\ ~req.perCall

\* a step of the login call in slot s
LoginStep(s) ==
    /\ ops'[s] # ops[s]
    /\ ops[s].kind = "login" \/ ops'[s].kind = "login"

\* the step in which the login call in slot s handles a rejected post that
\* came with a response
LoginRejectedStep(s) ==
    /\ ops[s].kind = "login" /\ ops[s].pc = "post" /\ ops'[s].kind = "idle"
    /\ last'.rej # NoResponse

\* C3 as stated: when the server rejects a login with {error: m}, the call
\* returns {success: false, error: m} and no step of it changes durable
\* storage, the default Authorization header or the in-memory token and user.
C3_RejectedLoginAnyMessage ==
    [][\A s \in Slots :
          LoginRejectedStep(s) =>
              /\ last'.outcome = "failure"
              /\ last'.error = last'.rej[1]
              /\ UNCHANGED <<storage, defaultAuth, token, user>>]_vars

\* C3 amended: the same for a non-empty m; a login call changes none of the
\* four before the server has answered.
C3_RejectedLogin ==
    [][\A s \in Slots :
          /\ (LoginRejectedStep(s) /\ last'.rej[1] # "") =>
                 /\ last'.outcome = "failure"
                 /\ last'.error = last'.rej[1]
                 /\ UNCHANGED <<storage, defaultAuth, token, user>>
          /\ (LoginStep(s) /\ ops[s].pc \in {"idle", "post"}) =>
                 UNCHANGED <<storage, defaultAuth, token, user>>]_vars

\* C3 witness: a login rejected with "Invalid credentials" has returned while
\* a session was in memory and in storage.
C3_Witness ==
    /\ NoSessionOp /\ last.kind = "login" /\ last.io = "post"
    /\ last.rej = <<"Invalid credentials">>
    /\ token # NULL /\ storage.auth_token # NULL /\ defaultAuth # NoHeader

\* C4: after logout has returned, durable storage holds neither key, there is
\* no default Authorization header and the in-memory token and user are
\* absent, also when multiRemove failed.
C4_LogoutClearsAll ==
    (NoSessionOp /\ last.kind = "logout") =>
        /\ storage = NoStorage
        /\ defaultAuth = NoHeader
        /\ token = NULL
        /\ user = NoUser

\* C5: logout never rejects: also when multiRemove failed the call resolves
\* and the in-memory session has ended.
C5_LogoutNeverRejects ==
    last.kind = "logout" =>
        /\ last.outcome = "resolved"
        /\ (NoSessionOp => token = NULL /\ user = NoUser)

\* C6: after restore, if the persisted token or user is missing, the user
\* record is malformed or the read failed, the in-memory session is empty and
\* the boot effect has not rejected.
C6_RestoreLeavesEmpty ==
    (NoSessionOp /\ last.kind = "restore" /\ (~StoredSession \/ last.io = "storage")) =>
        /\ token = NULL
        /\ user = NoUser
        /\ last.outcome = "resolved"

\* C7 as stated: when durable storage holds a token and a well-formed user
\* record at startup, after restore the in-memory token and user equal them
\* and a request sent afterwards carries Bearer <persisted token>.
C7_RestoreAnyRead ==
    (NoSessionOp /\ last.kind = "restore" /\ StoredSession) =>
        /\ token = storage.auth_token
        /\ user = Parse(storage.user)
        /\ (req.pc = "sent" => req.auth = Bearer(storage.auth_token))

\* C7 amended: the same, when the read of durable storage (multiGet) succeeds.
C7_Restore ==
    (NoSessionOp /\ last.kind = "restore" /\ last.io = "resolved" /\ StoredSession) =>
        /\ token = storage.auth_token
        /\ user = Parse(storage.user)
        /\ (req.pc = "sent" => req.auth = Bearer(storage.auth_token))

\* C7 witness: a request was sent after a restore that read a full session;
\* the default header was never set.
C7_Witness ==
    /\ NoSessionOp /\ last.kind = "restore" /\ last.io = "resolved" /\ StoredSession
    /\ req.pc = "sent" /\ defaultAuth = NoHeader

\* C8: a request sent while durable storage holds a token carries
\* Authorization: Bearer <stored token>, whatever the default header or the
\* per-call header built from the in-memory token says.
C8_StoredTokenWins ==
    (req.pc = "sent" /\ storage.auth_token # NULL) =>
        req.auth = Bearer(storage.auth_token)

\* C8 witness: a request with a per-call header has been sent while the
\* in-memory token and the default header both differ from the stored token.
C8_Witness ==
    /\ req.pc = "sent" /\ req.perCall
    /\ storage.auth_token # NULL
    /\ token # storage.auth_token
    /\ defaultAuth # Bearer(storage.auth_token)

\* C9: a step of a login or register call that changes the in-memory token
\* or user, or the default header, ends with that token and user record in
\* durable storage; so does the step that returns success, for the token and
\* user record the server answered with.
C9_PersistBeforeSuccess ==
    [][\A s \in Slots :
          (ops[s].kind \in SessionKinds /\ ops'[s] # ops[s]) =>
              /\ (token' # token \/ user' # user \/ defaultAuth' # defaultAuth) =>
                     storage' = MultiSet(token', Stringify(user'))
              /\ (ops'[s].kind = "idle" /\ last'.outcome = "success") =>
                     storage' = MultiSet(last'.tok, Stringify(last'.usr))]_vars

\* C9 witness: a register call has returned success and its token is the
\* in-memory token.
C9_Witness ==
    /\ NoSessionOp /\ last.kind = "register" /\ last.outcome = "success"
    /\ token = last.tok /\ storage.auth_token = last.tok

\* C10: when the server accepted the credentials and the storage write
\* failed, login has still set the in-memory token and user to the new session.
C10_LoginSurvivesStorageFailure ==
    (NoSessionOp /\ last.kind = "login" /\ last.io = "storage") =>
        /\ token = last.tok
        /\ user = last.usr


\* the generic message of login / register
GenericMessage(kind) == IF kind = "login" THEN LoginFailed ELSE RegistrationFailed

\* C11 as stated: login and register never reject; every failure (post
\* rejected with or without a response, storage error) returns
\* {success: false, error: msg} with msg the payload's error string when the
\* response carries one and the generic message otherwise.
C11_FailureResultAnyMessage ==
    (last.kind \in SessionKinds) =>
        /\ last.outcome \in {"success", "failure"}
        /\ last.io # "resolved" =>
               /\ last.outcome = "failure"
               /\ last.error = IF last.rej # NoResponse THEN last.rej[1]
                               ELSE GenericMessage(last.kind)

\* C11 amended: the same, with msg the payload's error string when that
\* string is non-empty and the generic message otherwise.
C11_FailureResult ==
    (last.kind \in SessionKinds) =>
        /\ last.outcome \in {"success", "failure"}
        /\ last.io # "resolved" =>
               /\ last.outcome = "failure"
               /\ last.error = IF last.rej # NoResponse /\ last.rej[1] # ""
                               THEN last.rej[1]
                               ELSE GenericMessage(last.kind)
               /\ NoSessionOp => error = last.error

\* C11 witness: a login whose storage write failed has returned the generic
\* message.
C11_Witness ==
    /\ NoSessionOp /\ last.kind = "login" /\ last.io = "storage"
    /\ last.outcome = "failure" /\ last.error = LoginFailed


\* C12: when two login calls overlap and both succeed, once both have
\* completed the in-memory token and user are those of the call that
\* completed last.
C12_LastLoginWins ==
    (NoSessionOp /\ overlap.last /\ last.kind = "login" /\ last.outcome = "success")
        => token = last.tok /\ user = last.usr

\* C12 witness: two overlapping logins that got different tokens have both
\* succeeded and nothing is in flight.
C12_Witness ==
    /\ NoSessionOp /\ overlap.last
    /\ last.kind = "login" /\ last.outcome = "success"
    /\ token = last.tok /\ storage.auth_token = token


\* the state logout is to leave: both keys absent, no default header, no
\* token and no user in memory, loading false
LoggedOut ==
    /\ storage = NoStorage /\ defaultAuth = NoHeader
    /\ token = NULL /\ user = NoUser /\ loading = FALSE

\* a call of logout in slot s returns (or throws) in this step
LogoutReturns(s) == ops[s].kind = "logout" /\ ops'[s].kind = "idle"

\* C13: a logout that follows another logout, or that is called on an
\* already empty session, leaves what one logout leaves: both storage keys
\* absent, no default Authorization header, token and user absent, loading
\* false.
C13_LogoutIdempotent ==
    [][\A s \in Slots :
         (LogoutReturns(s) /\ (last.kind = "logout" \/ (LoggedOut /\ boot = "done")))
             => LoggedOut']_vars


\* C15: the session loading flag is true from process start until restore
\* has finished; restore always finishes, and the step that finishes it sets
\* the flag to false, whatever the storage read gave (both values, one
\* missing, a malformed user record, a read error).
C15_LoadingUntilRestored ==
    /\ [](boot = "read" => loading)
    /\ <>(boot = "done")
    /\ [][(boot = "read" /\ boot' = "done") => ~loading']_vars

\* C15 witness: restore has finished on a malformed user record (JSON.parse
\* threw) and the loading flag is false.
C15_Witness ==
    /\ boot = "done" /\ ~loading
    /\ last.kind = "restore" /\ last.io = "resolved" /\ last.outcome = "rejected"
    /\ storage.user = Malformed


\* C14 (HomeScreen.loadData): when a request of the load was answered 401,
\* the screen has, once the load is over, called logout and navigated to the
\* Login screen.
C14_UnauthorizedLogsOut ==
    (home.pc = "idle" /\ home.unauthorized) =>
        home.logoutCalled /\ home.route = "Login"

\* calendar day of an instant, the days a list has entries on, and the
\* latest of them
DayOf(t) == t \div TicksPerDay
DaysOf(list) == {DayOf(list[i].workout_date) : i \in 1 .. Len(list)}
MostRecentDay(list) == CHOOSE d \in DaysOf(list) : \A e \in DaysOf(list) : e <= d

\* length of the longest run of consecutive days ending on day d that are
\* all in days
RunEnding(days, d) ==
    CHOOSE k \in 0 .. (MaxAge + 2) :
        /\ \A i \in 0 .. (k - 1) : (d - i) \in days
        /\ (d - k) \notin days

\* the workouts request of the load resolved: calcStreak ran on the list
\* now in state
StreakComputed == home.workoutsFetched /\ home.pc \in {"rankings", "idle"}

\* C16: for every workout list with an entry dated today (any order, any
\* number of entries per day) calcStreak yields the length of the longest
\* run of consecutive calendar days ending today that each have an entry;
\* for the empty list and for lists whose most recent entry is older than
\* yesterday it yields 0.
C16_StreakEndingToday ==
    StreakComputed =>
        /\ Today \in DaysOf(home.workouts)
               => home.streak = RunEnding(DaysOf(home.workouts), Today)
        /\ home.workouts = <<>> => home.streak = 0
        /\ (home.workouts # <<>> /\ MostRecentDay(home.workouts) < Today - 1)
               => home.streak = 0

\* C16 witness: an unsorted list with two entries today and one yesterday
\* has been counted as a streak of 2.
C16_Witness ==
    /\ StreakComputed /\ Len(home.workouts) = 3
    /\ DayOf(home.workouts[1].workout_date) = Today - 1
    /\ DayOf(home.workouts[2].workout_date) = Today
    /\ DayOf(home.workouts[3].workout_date) = Today
    /\ home.workouts[2].workout_date # home.workouts[3].workout_date
    /\ home.streak = 2

\* C17: for every workout list with no entry dated today whose most recent
\* entry is dated yesterday, calcStreak counts the run of consecutive days
\* ending yesterday, so the streak is at least 1.
C17_StreakEndingYesterday ==
    (/\ StreakComputed /\ home.workouts # <<>>
     /\ Today \notin DaysOf(home.workouts)
     /\ MostRecentDay(home.workouts) = Today - 1)
        => /\ home.streak = RunEnding(DaysOf(home.workouts), Today - 1)
           /\ home.streak >= 1


\* field contains query as a substring, letters compared without their case
ContainsCI(field, query) ==
    \E i \in 0 .. (Len(field) - Len(query)) :
        \A k \in 1 .. Len(query) : LowerChar(field[i + k]) = LowerChar(query[k])

\* the searchable fields of a workout: its name, its formatted date and the
\* names of its exercises
SearchableFields(workout) ==
    {workout.workout_name, toLocaleDateString(workout.workout_date)}
        \cup {workout.exercises[k].name : k \in 1 .. Len(workout.exercises)}

WorkoutMatches(workout, query) ==
    \E field \in SearchableFields(workout) : ContainsCI(field, query)

\* C18 as stated: for every non-empty search query every item of the
\* filtered list contains the query, compared case-insensitively, in a
\* searchable field (workout name, formatted date, an exercise name; username
\* on the leaderboard); for the empty query the filtered list is the input
\* list.
C18_FilterSoundNonEmpty ==
    /\ workoutScreen.searchQuery # <<>> =>
          \A i \in 1 .. Len(workoutScreen.filteredWorkouts) :
              WorkoutMatches(workoutScreen.filteredWorkouts[i],
                             workoutScreen.searchQuery)
    /\ workoutScreen.searchQuery = <<>> =>
          workoutScreen.filteredWorkouts = workoutScreen.workouts
    /\ leaderboardScreen.searchQuery # <<>> =>
          \A i \in 1 .. Len(leaderboardScreen.filteredLeaderboard) :
              ContainsCI(leaderboardScreen.filteredLeaderboard[i].username,
                         leaderboardScreen.searchQuery)
    /\ leaderboardScreen.searchQuery = <<>> =>
          leaderboardScreen.filteredLeaderboard = leaderboardScreen.leaderboard

\* the query has no character other than white space
IsBlank(query) == \A i \in 1 .. Len(query) : query[i] = " "

\* C18 amended: for every query that is not blank every item of the filtered
\* list contains the query, compared case-insensitively, in a searchable
\* field; for a blank query (empty or white space only) the filtered list is
\* the input list.
C18_FilterSound ==
    /\ ~IsBlank(workoutScreen.searchQuery) =>
          \A i \in 1 .. Len(workoutScreen.filteredWorkouts) :
              WorkoutMatches(workoutScreen.filteredWorkouts[i],
                             workoutScreen.searchQuery)
    /\ IsBlank(workoutScreen.searchQuery) =>
          workoutScreen.filteredWorkouts = workoutScreen.workouts
    /\ ~IsBlank(leaderboardScreen.searchQuery) =>
          \A i \in 1 .. Len(leaderboardScreen.filteredLeaderboard) :
              ContainsCI(leaderboardScreen.filteredLeaderboard[i].username,
                         leaderboardScreen.searchQuery)
    /\ IsBlank(leaderboardScreen.searchQuery) =>
          leaderboardScreen.filteredLeaderboard = leaderboardScreen.leaderboard

\* C18 witness: the query " " is typed over two loaded workouts of which
\* one has no space in any field, and both are shown.
C18_Witness ==
    /\ workoutScreen.mounted /\ workoutScreen.searchQuery = <<" ">>
    /\ Len(workoutScreen.workouts) = 2
    /\ ~WorkoutMatches(workoutScreen.workouts[1], <<" ">>)
    /\ WorkoutMatches(workoutScreen.workouts[2], <<" ">>)
    /\ workoutScreen.filteredWorkouts = workoutScreen.workouts

\* shown is picked from list in the order of list, and holds every entry of
\* list whose index is in `wanted`
RetainsInOrder(shown, list, wanted) ==
    \E at \in [1 .. Len(shown) -> 1 .. Len(list)] :
        /\ \A k \in 1 .. Len(shown) : shown[k] = list[at[k]]
        /\ \A k \in 1 .. (Len(shown) - 1) : at[k] < at[k + 1]
        /\ \A i \in wanted : \E k \in 1 .. Len(shown) : at[k] = i

\* C19: the workout filter retains every workout of which some field (name,
\* formatted date, an exercise name) contains the query as a
\* case-insensitive substring, and the retained workouts are in the order
\* they have in the input list.
C19_FilterCompleteInOrder ==
    RetainsInOrder(workoutScreen.filteredWorkouts, workoutScreen.workouts,
                   {i \in 1 .. Len(workoutScreen.workouts) :
                       WorkoutMatches(workoutScreen.workouts[i],
                                      workoutScreen.searchQuery)})

\* C19 witness: the query "A" is typed over a list whose second workout only
\* matches, by the lower-case name of an exercise, and that one is shown.
C19_Witness ==
    /\ workoutScreen.searchQuery = <<"A">>
    /\ Len(workoutScreen.workouts) = 2
    /\ workoutScreen.workouts[2].workout_name = <<"B">>
    /\ ~WorkoutMatches(workoutScreen.workouts[1], <<"A">>)
    /\ workoutScreen.filteredWorkouts = <<workoutScreen.workouts[2]>>


\* the progress conditions of the two versions of calculateProgress
NameGiven == form.workoutName # <<>>
TemplateChosen == form.selectedTemplate # NoTemplate
HasExercise == Len(form.exercises) > 0
HasFilledSet == SomeSetFilled(form.exercises)

\* C20: in every reachable state of the Create Workout form calculateProgress
\* (either version) lies in [0, 1] (0 .. 100 hundredths), is 0 when none of
\* its conditions is satisfied and exactly 1 when all of them are.
C20_ProgressRange ==
    /\ calculateProgress(form) \in 0 .. 100
    /\ calculateProgress2(form) \in 0 .. 100
    /\ (~NameGiven /\ ~TemplateChosen /\ ~HasExercise /\ ~HasFilledSet)
           => calculateProgress(form) = 0
    /\ (~NameGiven /\ ~TemplateChosen /\ ~HasExercise)
           => calculateProgress2(form) = 0
    /\ (NameGiven /\ TemplateChosen /\ HasExercise /\ HasFilledSet)
           => calculateProgress(form) = 100
    /\ (NameGiven /\ TemplateChosen /\ HasExercise)
           => calculateProgress2(form) = 100

\* C20 witness: a name is typed, a template chosen and a set filled in, and
\* both versions give 1.
C20_Witness ==
    /\ NameGiven /\ TemplateChosen /\ HasExercise /\ HasFilledSet
    /\ calculateProgress(form) = 100 /\ calculateProgress2(form) = 100


\* how many of the progress conditions a form state satisfies, for the
\* first version (four conditions) and for the second (three)
Bit(b) == IF b THEN 1 ELSE 0
Satisfied(f) ==
    Bit(f.workoutName # <<>>) + Bit(f.selectedTemplate # NoTemplate)
        + Bit(Len(f.exercises) > 0) + Bit(SomeSetFilled(f.exercises))
Satisfied2(f) ==
    Bit(f.workoutName # <<>>) + Bit(f.selectedTemplate # NoTemplate)
        + Bit(Len(f.exercises) > 0)

\* a form state that satisfies the first n conditions (name, template, an
\* exercise, a filled set) and no other
FilledSet == [weight |-> "5", reps |-> "5", completed |-> FALSE]
FormWith(n) ==
    [workoutName |-> IF n >= 1 THEN <<"L">> ELSE <<>>,
     selectedTemplate |-> IF n >= 2 THEN "custom" ELSE NoTemplate,
     exercises |-> IF n >= 4
                   THEN <<[name |-> "Squat", category |-> "Legs", sets |-> <<FilledSet>>]>>
                   ELSE IF n >= 3 THEN <<NewExercise("Squat", "Legs")>> ELSE <<>>]

\* C21: every satisfied progress condition contributes the same share: a
\* form state has the calculateProgress value of any other state with as
\* many satisfied conditions (here the state that satisfies the first ones).
C21_EqualShares ==
    /\ calculateProgress(form) = calculateProgress(FormWith(Satisfied(form)))
    /\ calculateProgress2(form) = calculateProgress2(FormWith(Satisfied2(form)))


\* C22: whenever loadData of HomeScreen has finished, the streak in state is
\* the streak computed from the workouts list in state (0 for the empty list).
C22_StreakMatchesList ==
    (home.pc = "idle" /\ ~home.loading)
        => \A now \in Clock : home.streak = calcStreak(home.workouts, now)

\* C23: the step in which an optional fetch fails (shared workouts or friends
\* in SocialScreen, workouts or rankings in HomeScreen) empties its list and
\* sets no error message, and the fetch after it in the same load is sent.
C23_FailureStep ==
    /\ "workouts" \in (home'.failed \ home.failed)
          => /\ home'.workouts = <<>> /\ ~home'.error
             /\ home'.pc = "rankings" /\ "rankings" \in home'.sent
    /\ "rankings" \in (home'.failed \ home.failed)
          => home'.rankings = <<>> /\ ~home'.error
    /\ "shared" \in (social'.failed \ social.failed)
          => /\ social'.sharedWorkouts = <<>> /\ ~social'.error
             /\ social'.pc = "friends" /\ "friends" \in social'.sent
    /\ "friends" \in (social'.failed \ social.failed)
          => social'.friends = <<>> /\ ~social'.error
C23_OptionalFetchFailure == [][C23_FailureStep]_vars
C23_Witness ==
    /\ home.refreshing /\ home.pc = "rankings"
    /\ "workouts" \in home.failed /\ home.workouts = <<>>
    /\ home.streak > 0 /\ ~home.error /\ "rankings" \in home.sent


\* C24: a screen has at most one outstanding data fetch at any time: no load
\* is started while a load of the same screen is still in flight.
C24_OneLoadInFlight == Cardinality(leaderboardScreen.inflight) <= 1

\* C26: once all outstanding leaderboard requests have completed (none of
\* them failed), the leaderboard in state is the response to the request made
\* with the currently selected filters.
C26_ShowsSelectedFilters ==
    (/\ leaderboardScreen.mounted /\ leaderboardScreen.inflight = {}
     /\ ~leaderboardScreen.error)
        => leaderboardScreen.shown = leaderboardScreen.filters


\* C27: once the DELETE request for a workout has succeeded, that workout is
\* not in the workouts list, also after overlapping deletes.
C27_DeletedNotListed ==
    \A i \in 1 .. Len(workoutScreen.workouts) :
        workoutScreen.workouts[i].workout_id \notin workoutScreen.deleted


\* C25: whenever no session operation is in flight, the in-memory token is
\* present exactly when durable storage holds auth_token, and the two are
\* then equal.
C25_TokenMatchesStorage ==
    NoSessionOp => token = storage["auth_token"]

\* C28: the session loading flag is true whenever a session operation
\* (restore, login, register, logout) is in flight and false when none is.
C28_LoadingIffInFlight == loading <=> ~NoSessionOp


\* C29: saveWorkout sends POST /workouts only when the trimmed workout name
\* is non-empty, the exercise list is non-empty and every exercise name is in
\* the catalogue that GET /exercises returned; a call that ends without a
\* POST sets an error message, leaves the exercise list unchanged and ends
\* with saving false.
InCatalogue(items, name) == \E i \in 1 .. Len(items) : items[i].name = name
PostSent == form.save.pc = "get" /\ form'.save.pc = "post"
EndsWithoutPost ==
    \/ form.save.pc = "get" /\ form'.save.pc = "idle"
    \/ form.save.pc = "idle" /\ form'.save.pc = "idle" /\ form'.errMsg # form.errMsg
C29_SaveStep ==
    /\ PostSent =>
          /\ trim(form.save.workoutName) # <<>>
          /\ Len(form.save.exercises) > 0
          /\ \A k \in 1 .. Len(form.save.exercises) :
                InCatalogue(form'.save.catalogue, form.save.exercises[k].name)
          /\ form'.exercises = form.exercises
    /\ EndsWithoutPost =>
          /\ form'.errMsg # NoErr
          /\ form'.exercises = form.exercises
          /\ ~form'.saving
C29_PostOnlyWhenValid == [][C29_SaveStep]_vars
C29_Witness ==
    /\ form.save.pc = "post" /\ form.saving
    /\ Len(form.save.exercises) > 1
    /\ form.errMsg = NoErr

\* C30: every exercise of the Create Workout form has at least one set in
\* every state reachable through the screen's actions, so that saveWorkout
\* finds a set to read reps and weight from.
C30_EveryExerciseHasASet ==
    \A k \in 1 .. Len(form.exercises) : Len(form.exercises[k].sets) >= 1
C30_Witness ==
    /\ Len(form.exercises) > 1
    /\ Len(form.exercises[1].sets) = 1
    /\ form.exercises[1].sets[1].weight # ""
    /\ Len(form.exercises[2].sets) > 1

=============================================================================
